---- MODULE Spec2Model ----
(***************************************************************************)
(* Model of the streaming chat command and the line-range patch engine of  *)
(* src-tauri/src/commands/chat.rs.                                         *)
(*                                                                         *)
(* Texts are sequences.  A document's content is a sequence of one-        *)
(* character strings ("a", "\n", "\r").  The text generated by the remote  *)
(* service is a sequence of lexical units, each standing for a fixed       *)
(* piece of text (see Tok): the JSON parser and the substring search are   *)
(* defined on these units.                                                 *)
(***************************************************************************)
EXTENDS Integers, Sequences, FiniteSets, TLC

VARIABLES
    pc,               \* "stream" while chunks are awaited, then how the command returned:
                      \* "ret_break", "ret_eof", "ret_err"; "patch", "patched", "patch_failed"
                      \* for a bare apply_edits call
    buffer,           \* carry-over buffer: <<>> or <<line>>, the unterminated line received so far
    accumulated_text, \* text of all text deltas processed so far
    done_sent,        \* the done flag
    suppress_text,    \* the mode flag
    events,           \* events sent on the outbound channel, in order
    active_file,      \* Option<String>: <<>> or <<name>>
    file,             \* content of the target document on disk
    orig,             \* content of the target document when the operation started
    writes,           \* number of completed std::fs::write calls
    processed,        \* the lines handed to process_line so far, in order
    nrec,             \* number of lines received so far (on bytes: of chunks)
    edits,            \* the batch handed to a bare apply_edits call
    applied,          \* None, or Some(what the last apply_edits computed)
    numbered,         \* the numbered rendering of the document sent with the request
    inbound,          \* the bytes of the response body, all of them
    pos,              \* number of bytes of inbound the chunks read so far have brought
    midchar,          \* some chunk read so far ended inside a multi-byte character
    rq,               \* the requests of a race on one document, each with its own state
    wlog,             \* the writes of the document in a race, in order: who wrote what
    api_key,          \* AppState.api_key: "" when no credential is held
    env_key,          \* the environment variable ANTHROPIC_API_KEY: Option<String>
    working_directory,\* AppState.working_directory: Option<String>
    lock,             \* holder of the working_directory mutex: None or Some(call)
    chat_dir,         \* the files of one document's chats directory, by name
    calls,            \* the chat-history calls in progress or done, each with its locals
    served            \* the calls in the order they took the lock

vars == <<pc, buffer, accumulated_text, done_sent, suppress_text, events,
          active_file, file, orig, writes, processed, nrec, edits, applied,
          numbered, inbound, pos, midchar, rq, wlog,
          api_key, env_key, working_directory, lock, chat_dir, calls, served>>

\* The variables of the application state and of the chat history
app == <<api_key, env_key, working_directory, lock, chat_dir, calls, served>>

\* Their values while a request streams: the credential and the directory
\* are set, no chat-history call runs
AppIdle ==
    /\ api_key = "k"
    /\ env_key = <<>>
    /\ working_directory = <<"d">>
    /\ lock = <<>>
    /\ chat_dir = <<>>
    /\ calls = <<>>
    /\ served = <<>>

\* The variables of the byte-level, the adapter and the race specifications,
\* and those of the application state
others == <<numbered, inbound, pos, midchar, rq, wlog, app>>

\* Their values where they play no part
Idle ==
    /\ numbered = <<>>
    /\ inbound = <<>>
    /\ pos = 0
    /\ midchar = FALSE
    /\ rq = <<>>
    /\ wlog = <<>>
    /\ AppIdle

----------------------------------------------------------------------------
(* Bounds *)

MaxRecords == 3      \* lines received per request
MaxContentLen == 2   \* characters of a document
MaxPos == 2          \* largest line number named by an instruction
MaxEdits == 2        \* instructions per batch
MaxStreamLines == 2  \* lines of a response body given byte by byte
MaxRaceLines == 2    \* delta lines per request of a race
MaxCalls == 3        \* chat-history calls in one run

----------------------------------------------------------------------------
(* Option values *)

None == <<>>
Some(x) == <<x>>

----------------------------------------------------------------------------
(* Strings of characters: documents and replacements *)

LF == "\n"
CR == "\r"

RECURSIVE Find(_, _, _)
\* str::find(c) from index i: the first index >= i holding c, 0 when there is none
Find(s, c, i) ==
    IF i > Len(s) THEN 0
    ELSE IF s[i] = c THEN i
    ELSE Find(s, c, i + 1)

ends_with(s, c) == Len(s) > 0 /\ s[Len(s)] = c

\* The closure of str::lines: strips the "\n" and then one "\r" before it
LinesMap(piece) ==
    IF ~ends_with(piece, LF) THEN piece
    ELSE LET l == SubSeq(piece, 1, Len(piece) - 1)
         IN  IF ends_with(l, CR) THEN SubSeq(l, 1, Len(l) - 1) ELSE l

RECURSIVE lines(_)
\* str::lines: split_inclusive('\n') mapped by LinesMap; "" has no line and
\* a final line ending opens no further line
lines(s) ==
    IF s = <<>> THEN <<>>
    ELSE LET p == Find(s, LF, 1)
         IN  IF p = 0 THEN <<LinesMap(s)>>
             ELSE <<LinesMap(SubSeq(s, 1, p))>> \o lines(SubSeq(s, p + 1, Len(s)))

RECURSIVE join(_)
\* [String]::join("\n")
join(ls) ==
    IF ls = <<>> THEN <<>>
    ELSE IF Len(ls) = 1 THEN ls[1]
    ELSE ls[1] \o <<LF>> \o join(Tail(ls))

----------------------------------------------------------------------------
(* The patch engine: apply_edits *)

\* serde_json Value::as_u64 on a JSON integer: None for a negative number
as_u64(v) == IF v >= 0 THEN Some(v) ELSE None

\* The filter_map closure: an entry whose start or end is no u64 is left out
IsEditOp(e) == as_u64(e.start) # None /\ as_u64(e.end) # None

RECURSIVE filter_map(_)
filter_map(es) ==
    IF es = <<>> THEN <<>>
    ELSE IF IsEditOp(Head(es)) THEN <<Head(es)>> \o filter_map(Tail(es))
    ELSE filter_map(Tail(es))

\* SortsBefore for an ascending sort
SortsBeforeAscending(a, b) == a.start < b.start

\* The comparator b.0.cmp(&a.0) answers Less: a is placed before b
SortsBefore(a, b) == b.start < a.start

RECURSIVE SortedInsert(_, _)
SortedInsert(x, s) ==
    IF s = <<>> THEN <<x>>
    ELSE IF SortsBefore(x, s[1]) THEN <<x>> \o s
    ELSE <<s[1]>> \o SortedInsert(x, Tail(s))

RECURSIVE sort_by(_)
\* slice::sort_by is stable: entries that compare equal keep their listed order
sort_by(s) ==
    IF s = <<>> THEN <<>>
    ELSE SortedInsert(s[Len(s)], sort_by(SubSeq(s, 1, Len(s) - 1)))

\* SkipEdit without the tests for a zero bound
SkipEditZeroAllowed(op, n) == op.start > n \/ op.end > n \/ op.start > op.end

\* The guard of the loop body: the instruction is skipped (n is lines.len())
SkipEdit(op, n) ==
    op.start = 0 \/ op.end = 0 \/ op.start > n \/ op.end > n \/ op.start > op.end

\* The lines a replacement text stands for
new_lines(replacement) ==
    IF replacement = <<>> THEN <<>> ELSE lines(replacement)

\* Vec::splice(start - 1 .. end, new_lines)
splice(ls, op) ==
    SubSeq(ls, 1, op.start - 1) \o new_lines(op.replacement) \o SubSeq(ls, op.end + 1, Len(ls))

RECURSIVE EditLoop(_, _)
\* The for loop over edit_ops.  st.lines is the line vector; st.log records,
\* for each instruction in the order it was reached, the line count it was
\* checked against and whether it was applied.
EditLoop(st, ops) ==
    IF ops = <<>> THEN st
    ELSE LET op == Head(ops)
             n == Len(st.lines)
         IN  IF SkipEdit(op, n)
             THEN EditLoop([st EXCEPT !.log = Append(@, [op |-> op, len |-> n, applied |-> FALSE])],
                           Tail(ops))
             ELSE EditLoop([lines |-> splice(st.lines, op),
                            log |-> Append(st.log, [op |-> op, len |-> n, applied |-> TRUE])],
                           Tail(ops))

\* The rejoined text with the trailing line-feed of the original put back
Rejoin(content, ls) ==
    LET result == join(ls)
    IN  IF ends_with(content, LF) /\ ~ends_with(result, LF) THEN result \o <<LF>> ELSE result

\* What apply_edits computed: the line vector after the loop, the log of the
\* loop and the text handed to std::fs::write
Rewritten(content, st) ==
    [lines |-> st.lines, log |-> st.log, result |-> Rejoin(content, st.lines)]

\* apply_edits on a document that reads as content
apply_edits(content, es) ==
    Rewritten(content, EditLoop([lines |-> lines(content), log |-> <<>>], sort_by(filter_map(es))))

----------------------------------------------------------------------------
(* Generated text and the JSON it may hold *)

\* Lexical units of the generated text, each a fixed piece of text
WS == " "
P == "p"
LB == "{"
RB == "}"
OE == "{\"edits\""
ARR == ":[{\"start\":1,\"end\":1,\"replacement\":\"x\"}]"
RBX == ",\"explanation\":\"e\",\"changes\":[{\"filename\":\"f\",\"description\":\"d\"}]}"
ARR2 == ":[{\"start\":2,\"end\":2,\"replacement\":\"y\"}]"
ARR0 == ":[]"
Tok == {WS, P, LB, RB, OE, ARR, ARR2, ARR0, RBX}

\* What the units ARR and RBX hold
PayloadEdits == <<[start |-> 1, end |-> 1, replacement |-> <<"x">>]>>
PayloadEdits2 == <<[start |-> 2, end |-> 2, replacement |-> <<"y">>]>>
PayloadExplanation == "e"
PayloadChanges == <<[component |-> None, filename |-> "f", description |-> "d"]>>

\* The first character of a unit is the opening brace
OpensBrace(tok) == tok \in {LB, OE}

RECURSIVE trim_start(_)
trim_start(text) ==
    IF text # <<>> /\ Head(text) = WS THEN trim_start(Tail(text)) ELSE text

\* text.trim_start().starts_with('{')
StartsWithBrace(text) ==
    LET t == trim_start(text) IN t # <<>> /\ OpensBrace(Head(t))

IsWs(tok) == tok = WS
NotWs(tok) == ~IsWs(tok)

\* serde_json::from_str::<Value>: white space around and between the units is
\* skipped, an incomplete value or trailing characters are an error.
\* Err is None; Ok(value) is Some of the fields the command reads.
from_str(text) ==
    LET t == SelectSeq(text, NotWs)
    IN  IF t = <<LB, RB>>
        THEN Some([edits |-> None, explanation |-> None, changes |-> None])
        ELSE IF t = <<OE, ARR, RB>>
        THEN Some([edits |-> Some(PayloadEdits), explanation |-> None, changes |-> None])
        ELSE IF t = <<OE, ARR2, RB>>
        THEN Some([edits |-> Some(PayloadEdits2), explanation |-> None, changes |-> None])
        ELSE IF t = <<OE, ARR0, RB>>
        THEN Some([edits |-> Some(<<>>), explanation |-> None, changes |-> None])
        ELSE IF t = <<OE, ARR, RBX>>
        THEN Some([edits |-> Some(PayloadEdits), explanation |-> Some(PayloadExplanation),
                   changes |-> Some(PayloadChanges)])
        ELSE None

\* accumulated_text.find("{\"edits\""): 0 stands for None
FindEdits(text) == Find(text, OE, 1)

----------------------------------------------------------------------------
(* Outbound events *)

Thinking(c) == [type |-> "Thinking", content |-> c]
Text(c) == [type |-> "Text", content |-> c]
Done(ch, ex) == [type |-> "Done", changes |-> ch, explanation |-> ex]
Error(m) == [type |-> "Error", message |-> m]

DefaultExplanation == "Changes applied."

----------------------------------------------------------------------------
(* handle_edit_response *)

\* Bytes of a file or of a chunk.  A byte below 0x80 is written as its
\* character ("a", "\n"); the others by their hexadecimal value.
NUL == "00"
BOM1 == "FF"
BOM2 == "FE"
LEAD == "C3"    \* first byte of a two-byte character
CONT == "A9"    \* its continuation byte
EACUTE == "e-acute"    \* the character C3 A9 encodes
REPL == "U+FFFD"       \* the replacement character
OTHERCHAR == "U+xxxx"      \* a UTF-16 unit outside the characters above

HighBytes == {BOM1, BOM2, LEAD, CONT}

RECURSIVE from_utf8_lossy(_)
\* String::from_utf8_lossy: an invalid byte, or a lead byte without its
\* continuation, becomes the replacement character
from_utf8_lossy(bs) ==
    IF bs = <<>> THEN <<>>
    ELSE IF bs[1] = LEAD /\ Len(bs) >= 2 /\ bs[2] = CONT
    THEN <<EACUTE>> \o from_utf8_lossy(SubSeq(bs, 3, Len(bs)))
    ELSE IF bs[1] \in HighBytes THEN <<REPL>> \o from_utf8_lossy(Tail(bs))
    ELSE <<bs[1]>> \o from_utf8_lossy(Tail(bs))

RECURSIVE as_bytes(_)
\* The UTF-8 bytes of a string
as_bytes(cs) ==
    IF cs = <<>> THEN <<>>
    ELSE IF cs[1] = EACUTE THEN <<LEAD, CONT>> \o as_bytes(Tail(cs))
    ELSE <<cs[1]>> \o as_bytes(Tail(cs))

\* Ok of a decoded string unless the decoding had to replace something
Strict(cs) == IF \A i \in 1..Len(cs) : cs[i] # REPL THEN Some(cs) ELSE None

\* std::fs::read_to_string: None (Err) unless the bytes are valid UTF-8
read_to_string(bs) == Strict(from_utf8_lossy(bs))

\* One UTF-16 unit from its two bytes, low byte first
from_le_bytes(lo, hi) == IF hi = NUL /\ lo \notin HighBytes THEN lo ELSE OTHERCHAR

RECURSIVE from_utf16_lossy(_)
\* The units of chunks(2), a last chunk of one byte left out, decoded
from_utf16_lossy(bs) ==
    IF Len(bs) < 2 THEN <<>>
    ELSE <<from_le_bytes(bs[1], bs[2])>> \o from_utf16_lossy(SubSeq(bs, 3, Len(bs)))

\* read_asc_file_content once the file was read: strict UTF-8, else UTF-16LE
\* behind a byte order mark, else lossy UTF-8
read_asc_file_content(bs) ==
    IF read_to_string(bs) # None THEN read_to_string(bs)[1]
    ELSE IF Len(bs) >= 2 /\ bs[1] = BOM1 /\ bs[2] = BOM2
    THEN from_utf16_lossy(SubSeq(bs, 3, Len(bs)))
    ELSE from_utf8_lossy(bs)

\* The numbered rendering "{i+1}| {line}" of the lines of a content
Numbered(content) == [i \in 1..Len(lines(content)) |-> [n |-> i, line |-> lines(content)[i]]]

\* Outcomes of the document I/O of one apply_edits call
IoOutcomes == {"ok", "read_err", "create_err", "write_err"}

\* The error text of a failed apply_edits
IoMessage(io) ==
    IF io = "read_err" THEN <<"Failed to read file">> ELSE <<"Failed to write file">>

\* std::fs::write of what apply_edits computed (r): a failed open leaves the
\* file as it is, a failed write leaves it truncated
WriteFile(st, r, io) ==
    IF io = "create_err"
    THEN [ok |-> FALSE, msg |-> IoMessage(io), st |-> [st EXCEPT !.applied = Some(r)]]
    ELSE IF io = "write_err"
    THEN [ok |-> FALSE, msg |-> IoMessage(io),
          st |-> [st EXCEPT !.file = <<>>, !.applied = Some(r)]]
    ELSE [ok |-> TRUE, msg |-> <<>>,
          st |-> [st EXCEPT !.file = as_bytes(r.result), !.writes = @ + 1,
                            !.applied = Some(r)]]

\* apply_edits with its I/O.  st holds file, writes, events and applied; the
\* answer is the Result (ok, with the error text) and the state.  A failed
\* read returns at once, and the read fails as well on a file that is no
\* valid UTF-8.
ApplyEditsIo(st, es, io) ==
    IF io = "read_err" \/ read_to_string(st.file) = None
    THEN [ok |-> FALSE, msg |-> IoMessage("read_err"), st |-> st]
    ELSE WriteFile(st, apply_edits(read_to_string(st.file)[1], es), io)

\* HasEdits asking for an array that is not empty
HasEditsNonEmpty(json_val) == json_val.edits # None /\ json_val.edits[1] # <<>>

\* The guard of handle_edit_response: the value has an edits array
HasEdits(json_val) == json_val.edits # None

\* The explanation and the change list of the Done event
ExplanationOf(json_val) ==
    IF json_val.explanation # None THEN json_val.explanation[1] ELSE DefaultExplanation

ChangesOf(json_val) ==
    IF json_val.changes # None THEN json_val.changes[1] ELSE <<>>

\* The event handle_edit_response sends once the document is dealt with (a)
Respond(json_val, a, io) ==
    IF ~a.ok
    THEN [handled |-> TRUE, st |-> [a.st EXCEPT !.events = Append(@, Error(a.msg))]]
    ELSE [handled |-> TRUE,
          st |-> [a.st EXCEPT !.events =
                      Append(@, Done(ChangesOf(json_val), Some(ExplanationOf(json_val))))]]

\* handle_edit_response calling apply_edits also without an active file
HandleEditResponseWithoutFile(st, json_val, af, io) ==
    IF ~HasEdits(json_val) THEN [handled |-> FALSE, st |-> st]
    ELSE Respond(json_val, ApplyEditsIo(st, json_val.edits[1], io), io)

\* handle_edit_response: handled is the returned bool
handle_edit_response(st, json_val, af, io) ==
    IF ~HasEdits(json_val) THEN [handled |-> FALSE, st |-> st]
    ELSE IF af # None THEN Respond(json_val, ApplyEditsIo(st, json_val.edits[1], io), io)
    ELSE Respond(json_val, [ok |-> TRUE, msg |-> <<>>, st |-> st], io)

\* if let Ok(json_val) = parsed { handle_edit_response(..) }: not handled on Err
TryHandle(st, parsed, af, io) ==
    IF parsed # None THEN handle_edit_response(st, parsed[1], af, io)
    ELSE [handled |-> FALSE, st |-> st]

\* The text from the first {"edits" on, parsed; None when there is no {"edits"
Candidate(text, json_start) ==
    IF json_start = 0 THEN None ELSE from_str(SubSeq(text, json_start, Len(text)))

\* The fallback, reached when the whole text was not handled (first)
Fallback(st, first, af, io) ==
    IF first.handled THEN first
    ELSE TryHandle(st, Candidate(st.accumulated_text, FindEdits(st.accumulated_text)), af, io)

\* The resolution shared by the message_stop arm and the end of the stream:
\* the whole accumulated text first, then its part from the first {"edits"
Resolve(st, af, io) ==
    Fallback(st, TryHandle(st, from_str(st.accumulated_text), af, io), af, io)

----------------------------------------------------------------------------
(* Inbound lines and process_line *)

\* Texts a text delta may carry
DeltaTexts ==
    {<<>>, <<WS>>, <<P>>, <<LB>>, <<WS, LB>>, <<RB>>, <<OE, ARR, RB>>, <<OE, ARR, RBX>>}

\* A line after trimming, by what process_line makes of it:
\*   comment   no "data: " prefix          sentinel  data: [DONE]
\*   badjson   payload is no JSON          other     JSON of an unrecognized type
\*   thinking / text   a content_block_delta with the delta's text
\*   stop      message_stop                 error     error with its message
Line(k, t) == [kind |-> k, text |-> t]
\* The message an error record carries
UpstreamMessage == <<P>>
IgnorableKinds == {"comment", "sentinel", "badjson", "other"}
Lines ==
    {Line(k, <<>>) : k \in IgnorableKinds \cup {"stop"}}
        \cup {Line("thinking", <<P>>), Line("error", UpstreamMessage)}
        \cup {Line("text", t) : t \in DeltaTexts}

\* Classify looking at the first character without trimming
ClassifyNoTrim(suppress, accumulated, text) ==
    IF accumulated = <<>> /\ text # <<>> /\ OpensBrace(Head(text)) THEN TRUE ELSE suppress

\* Classify looking at every delta, not only the first
ClassifyEveryDelta(suppress, accumulated, text) ==
    IF StartsWithBrace(text) THEN TRUE ELSE suppress

\* Classify taking a blank accumulated text for an empty one
ClassifyBlankAsEmpty(suppress, accumulated, text) ==
    IF trim_start(accumulated) = <<>> /\ StartsWithBrace(text) THEN TRUE ELSE suppress

\* The mode flag after a text delta
Classify(suppress, accumulated, text) ==
    IF accumulated = <<>> /\ StartsWithBrace(text) THEN TRUE ELSE suppress

\* TextDelta sending the Text event in either mode
TextDeltaAlwaysSent(st, text) ==
    [st EXCEPT !.suppress_text = Classify(st.suppress_text, st.accumulated_text, text),
               !.accumulated_text = @ \o text,
               !.events = Append(@, Text(text))]

\* TextDelta keeping the text only of the deltas it sends
TextDeltaKeptWhenSent(st, text) ==
    LET sup == Classify(st.suppress_text, st.accumulated_text, text)
    IN  [st EXCEPT !.suppress_text = sup,
                   !.accumulated_text = IF ~sup THEN @ \o text ELSE @,
                   !.events = IF ~sup THEN Append(@, Text(text)) ELSE @]

\* The text_delta arm
TextDelta(st, text) ==
    LET sup == Classify(st.suppress_text, st.accumulated_text, text)
    IN  [st EXCEPT !.suppress_text = sup,
                   !.accumulated_text = @ \o text,
                   !.events = IF ~sup THEN Append(@, Text(text)) ELSE @]

\* The message_stop arm after the resolution r: ret is the returned bool
StopOutcome(st, r) ==
    IF r.handled THEN [ret |-> TRUE, st |-> [r.st EXCEPT !.done_sent = TRUE]]
    ELSE [ret |-> FALSE,
          st |-> [st EXCEPT !.events = Append(@, Done(<<>>, None)), !.done_sent = TRUE]]

\* The message_stop arm
MessageStop(st, af, io) == StopOutcome(st, Resolve(st, af, io))

\* process_line on the request state st
process_line(st, line, af, io) ==
    LET st1 == [st EXCEPT !.processed = Append(@, line)]
    IN  IF line.kind \in IgnorableKinds THEN [ret |-> FALSE, st |-> st1]
        ELSE IF line.kind = "thinking"
        THEN [ret |-> FALSE, st |-> [st1 EXCEPT !.events = Append(@, Thinking(line.text))]]
        ELSE IF line.kind = "text" THEN [ret |-> FALSE, st |-> TextDelta(st1, line.text)]
        ELSE IF line.kind = "stop" THEN MessageStop(st1, af, io)
        ELSE [ret |-> TRUE,
              st |-> [st1 EXCEPT !.events = Append(@, Error(line.text)), !.done_sent = TRUE]]

\* The flush of the carry-over buffer after the loop: the returned bool is dropped
Flush(st, buf, af, io) ==
    IF ~st.done_sent /\ buf # None THEN process_line(st, buf[1], af, io).st ELSE st

\* FinalOutcome without the closing Done
FinalOutcomeNoDone(st, r) == IF r.handled THEN r.st ELSE st

\* The final check after the resolution r
FinalOutcome(st, r) ==
    IF r.handled THEN r.st ELSE [st EXCEPT !.events = Append(@, Done(<<>>, None))]

\* FinalCheck closing with the plain Done without resolving the text
FinalCheckPlain(st, af, io) ==
    IF st.done_sent THEN st ELSE [st EXCEPT !.events = Append(@, Done(<<>>, None))]

\* The final check after the loop
FinalCheck(st, af, io) ==
    IF st.done_sent THEN st ELSE FinalOutcome(st, Resolve(st, af, io))

\* AfterLoop without the final check
AfterLoopFlushOnly(st, buf, af, io) == Flush(st, buf, af, io)

\* The code after the loop.  At most one of the flush and the final check
\* reaches apply_edits, so one I/O outcome serves both.
AfterLoop(st, buf, af, io) == FinalCheck(Flush(st, buf, af, io), af, io)

----------------------------------------------------------------------------
(* The streaming command as a state machine *)

\* Documents the streaming command is run on
StreamDocs == {<<"a", LF>>, <<"a", LF, "b">>}

ReqState ==
    [accumulated_text |-> accumulated_text, done_sent |-> done_sent,
     suppress_text |-> suppress_text, events |-> events, file |-> file,
     writes |-> writes, processed |-> processed, applied |-> applied]

SetReqState(st) ==
    /\ accumulated_text' = st.accumulated_text
    /\ done_sent' = st.done_sent
    /\ suppress_text' = st.suppress_text
    /\ events' = st.events
    /\ file' = st.file
    /\ writes' = st.writes
    /\ processed' = st.processed
    /\ applied' = st.applied

Init ==
    /\ pc = "stream"
    /\ buffer = None
    /\ accumulated_text = <<>>
    /\ done_sent = FALSE
    /\ suppress_text = FALSE
    /\ events = <<>>
    /\ active_file \in {None, Some("f")}
    /\ file \in StreamDocs
    /\ orig = file
    /\ writes = 0
    /\ processed = <<>>
    /\ nrec = 0
    /\ edits = <<>>
    /\ applied = None
    /\ Idle

\* LoopStep going on with the next line whatever process_line answered
LoopStepNoBreak(r, af, io) == [pc |-> "stream", st |-> r.st]

\* The loop after process_line answered r: on true the loop is left and the
\* code after it runs (the buffer is passed over, see Flush)
LoopStep(r, af, io) ==
    IF r.ret THEN [pc |-> "ret_break", st |-> AfterLoop(r.st, None, af, io)]
    ELSE [pc |-> "stream", st |-> r.st]

\* One line handed to process_line inside the chunk loop
LoopLine(st, line, af, io) == LoopStep(process_line(st, line, af, io), af, io)

SetLoop(x) == SetReqState(x.st) /\ pc' = x.pc

\* A chunk brings a whole line with its line-feed
RecvLine ==
    /\ pc = "stream" /\ buffer = None /\ nrec < MaxRecords
    /\ \E line \in Lines, io \in IoOutcomes : SetLoop(LoopLine(ReqState, line, active_file, io))
    /\ nrec' = nrec + 1
    /\ UNCHANGED others
    /\ UNCHANGED <<buffer, active_file, orig, edits>>

\* A chunk brings a line without its line-feed: it stays in the buffer
RecvPartial ==
    /\ pc = "stream" /\ buffer = None /\ nrec < MaxRecords
    /\ \E line \in Lines : buffer' = Some(line)
    /\ nrec' = nrec + 1
    /\ UNCHANGED others
    /\ UNCHANGED <<pc, accumulated_text, done_sent, suppress_text, events, active_file,
                   file, orig, writes, processed, edits, applied>>

\* A chunk brings the line-feed that ends the buffered line
RecvNewline ==
    /\ pc = "stream" /\ buffer # None
    /\ \E io \in IoOutcomes : SetLoop(LoopLine(ReqState, buffer[1], active_file, io))
    /\ buffer' = None
    /\ UNCHANGED others
    /\ UNCHANGED <<active_file, orig, nrec, edits>>

\* RecvError handing the buffered line to process_line before it gives up
RecvErrorFlushing ==
    /\ pc = "stream"
    /\ \E io \in IoOutcomes :
           SetReqState([Flush(ReqState, buffer, active_file, io)
                            EXCEPT !.events = Append(@, Error(<<"Stream error">>))])
    /\ pc' = "ret_err"
    /\ UNCHANGED others
    /\ UNCHANGED <<buffer, active_file, orig, nrec, edits>>

\* Reading the next chunk fails
RecvError ==
    /\ pc = "stream"
    /\ events' = Append(events, Error(<<"Stream error">>))
    /\ pc' = "ret_err"
    /\ UNCHANGED others
    /\ UNCHANGED <<buffer, accumulated_text, done_sent, suppress_text, active_file,
                   file, orig, writes, processed, nrec, edits, applied>>

\* The byte stream ends
StreamEnd ==
    /\ pc = "stream"
    /\ \E io \in IoOutcomes : SetReqState(AfterLoop(ReqState, buffer, active_file, io))
    /\ pc' = "ret_eof"
    /\ UNCHANGED others
    /\ UNCHANGED <<buffer, active_file, orig, nrec, edits>>

Next == RecvError \/ RecvLine \/ RecvPartial \/ RecvNewline \/ StreamEnd

Spec == Init /\ [][Next]_vars

\* The request over a byte stream that is finite: each read of the stream
\* returns (a chunk, a failure or the end), so the command keeps taking
\* steps until it returns
LiveSpec == Spec /\ WF_vars(Next)

----------------------------------------------------------------------------
(* apply_edits on its own: every document and every batch within the bounds. *)
(* The document I/O succeeds here; its failures are part of Spec.            *)

Chars == {"a", LF}

\* All texts over cs of at most n characters
RECURSIVE TextsUpTo(_, _)
TextsUpTo(cs, n) ==
    IF n = 0 THEN {<<>>}
    ELSE LET shorter == TextsUpTo(cs, n - 1)
         IN  shorter \cup {Append(t, c) : t \in shorter, c \in cs}

Contents == TextsUpTo(Chars, MaxContentLen)

\* Replacement texts: no line, one line, and two lines of which the last is
\* blank (the text ends in two line-feeds)
Replacements == {<<>>, <<"x">>, <<"x", LF, LF>>}

Edit(s, e, r) == [start |-> s, end |-> e, replacement |-> r]

\* Entries of an edits array: ranges of one or two lines, and ranges with a
\* zero bound, with end = start - 1 or beyond the document; the last entry
\* has a start that is no u64
EditValues ==
    {v \in {Edit(s, e, r) : s \in 0..MaxPos, e \in 0..MaxPos, r \in Replacements} :
        v.start <= v.end + 1 /\ v.end <= v.start + 1}
        \cup {Edit(-1, 1, <<"x">>)}

Batches == TextsUpTo(EditValues, MaxEdits)

PatchInit ==
    /\ pc = "patch"
    /\ file \in Contents
    /\ orig = file
    /\ edits \in Batches
    /\ buffer = None
    /\ accumulated_text = <<>>
    /\ done_sent = FALSE
    /\ suppress_text = FALSE
    /\ events = <<>>
    /\ active_file = Some("f")
    /\ writes = 0
    /\ processed = <<>>
    /\ nrec = 0
    /\ applied = None
    /\ Idle

SetPatched(a) ==
    /\ file' = a.st.file
    /\ writes' = a.st.writes
    /\ applied' = a.st.applied
    /\ pc' = IF a.ok THEN "patched" ELSE "patch_failed"

\* One call of apply_edits on the document
PatchApply ==
    /\ pc = "patch"
    /\ SetPatched(ApplyEditsIo([file |-> file, writes |-> writes, applied |-> applied],
                               edits, "ok"))
    /\ UNCHANGED others
    /\ UNCHANGED <<buffer, accumulated_text, done_sent, suppress_text, events, active_file,
                   orig, processed, nrec, edits>>

PatchNext == PatchApply

PatchSpec == PatchInit /\ [][PatchNext]_vars

----------------------------------------------------------------------------
(* Vocabulary of the properties of the streaming command *)

IsTextLine(l) == l.kind = "text"
IsThinkingLine(l) == l.kind = "thinking"
IsTextEvent(e) == e.type = "Text"
IsThinkingEvent(e) == e.type = "Thinking"
IsTerminal(e) == e.type \in {"Done", "Error"}

Returned == pc \in {"ret_break", "ret_eof", "ret_err"}

\* Payloads of the deltas processed so far and the contents sent for them
TextDeltas == [i \in 1..Len(SelectSeq(processed, IsTextLine)) |->
                  SelectSeq(processed, IsTextLine)[i].text]
ThinkingDeltas == [i \in 1..Len(SelectSeq(processed, IsThinkingLine)) |->
                      SelectSeq(processed, IsThinkingLine)[i].text]
TextContents == [i \in 1..Len(SelectSeq(events, IsTextEvent)) |->
                    SelectSeq(events, IsTextEvent)[i].content]
ThinkingContents == [i \in 1..Len(SelectSeq(events, IsThinkingEvent)) |->
                        SelectSeq(events, IsThinkingEvent)[i].content]

RECURSIVE Concat(_)
Concat(ts) == IF ts = <<>> THEN <<>> ELSE Head(ts) \o Concat(Tail(ts))

\* Index of the first non-empty text delta, 0 when there is none
RECURSIVE FirstNonEmpty(_, _)
FirstNonEmpty(ts, i) ==
    IF i > Len(ts) THEN 0 ELSE IF ts[i] # <<>> THEN i ELSE FirstNonEmpty(ts, i + 1)

FirstDelta == FirstNonEmpty(TextDeltas, 1)

\* The first non-empty text delta has the brace as its first non-blank character
FirstDeltaOpensBrace == FirstDelta # 0 /\ StartsWithBrace(TextDeltas[FirstDelta])
\* The first non-empty text delta has another first character, or is all blank
FirstDeltaIsProse == FirstDelta # 0 /\ ~StartsWithBrace(TextDeltas[FirstDelta])

DocTouched == file # orig \/ writes > 0

\* C1: exactly one terminal event (Done or Error) is emitted per request and
\* no event follows it, whatever lines arrive, also after a message_stop.
C1_OneTerminalLast ==
    /\ \A i \in 1..Len(events) : IsTerminal(events[i]) => i = Len(events)
    /\ Returned => events # <<>> /\ IsTerminal(events[Len(events)])

\* C2: when the first non-empty text delta opens with the brace, no Text
\* event is sent for it or for any later text delta (the only Text events are
\* the empty ones of the empty deltas before it), and every thinking delta
\* processed has its Thinking event.
C2_SuppressedLockIn ==
    /\ FirstDeltaOpensBrace =>
           TextContents = [i \in 1..(FirstDelta - 1) |-> <<>>]
    /\ ThinkingContents = ThinkingDeltas

\* C2 witness: a suppressed request that went on to process a further text
\* delta and then a thinking delta
C2_Witness ==
    /\ FirstDeltaOpensBrace
    /\ Len(TextDeltas) > FirstDelta
    /\ processed # <<>> /\ IsThinkingLine(processed[Len(processed)])

\* C3: when the first non-empty text delta does not open with the brace,
\* every text delta processed has exactly one Text event carrying its text
\* unchanged, in arrival order, so the contents add up to the accumulated text.
C3_PassthroughLockIn ==
    FirstDeltaIsProse =>
        /\ TextContents = TextDeltas
        /\ Concat(TextContents) = accumulated_text

\* C3 witness: a passthrough request that processed a later text delta
\* opening with the brace
C3_Witness ==
    /\ FirstDeltaIsProse
    /\ Len(TextDeltas) > FirstDelta
    /\ StartsWithBrace(TextDeltas[Len(TextDeltas)])
    /\ Len(TextContents) = Len(TextDeltas)

\* C4: the mode flag changes only in a step that starts with an empty
\* accumulated text; once the text is non-empty the flag keeps its value.
C4_ModeDecidedOnce ==
    [][suppress_text' # suppress_text => accumulated_text = <<>>]_vars

\* C4 witness: the text began with white space in a delta of its own, the
\* mode stayed passthrough, and a brace arrived next
C4_Witness ==
    /\ ~suppress_text
    /\ Len(TextDeltas) = 2
    /\ TextDeltas[1] = <<WS>>
    /\ StartsWithBrace(TextDeltas[2])

\* The text holds an edit payload for the resolution: the whole of it, or its
\* part from the first {"edits" on, is a JSON object with an edits array
WholeIsPayload(text) == from_str(text) # None /\ from_str(text)[1].edits # None
PartIsPayload(text) ==
    /\ FindEdits(text) # 0
    /\ WholeIsPayload(SubSeq(text, FindEdits(text), Len(text)))

HasProseEvent == \E i \in 1..Len(TextContents) : TextContents[i] # <<>>

Finalizes ==
    \/ /\ Len(processed') = Len(processed) + 1
       /\ processed'[Len(processed')].kind = "stop"
    \/ pc = "stream" /\ pc' = "ret_eof" /\ ~done_sent'

\* The step ends in Done{changes: [], explanation: None} and leaves the document alone
EndsInPlainDone ==
    /\ Len(events') > Len(events)
    /\ events'[Len(events')] = Done(<<>>, None)
    /\ file' = file /\ writes' = writes

----------------------------------------------------------------------------
(* Vocabulary of the properties of apply_edits *)

Patched == pc = "patched"
OrigLines == lines(orig)

\* 1 <= start <= end <= n
InBounds(op, n) == 1 <= op.start /\ op.start <= op.end /\ op.end <= n

Overlap(a, b) == ~(a.end < b.start \/ b.end < a.start)

\* A batch of pairwise non-overlapping instructions in bounds of n lines
Disjoint(es, n) ==
    /\ \A i \in 1..Len(es) : InBounds(es[i], n)
    /\ \A i, j \in 1..Len(es) : i # j => ~Overlap(es[i], es[j])

RECURSIVE Simultaneous(_, _, _)
\* Lines i.. of ls with every range of es replaced at once: a line that starts
\* a range gives way to the replacement lines and the range is passed over
Simultaneous(ls, es, i) ==
    IF i > Len(ls) THEN <<>>
    ELSE IF \E k \in 1..Len(es) : es[k].start = i
    THEN LET k == CHOOSE k \in 1..Len(es) : es[k].start = i
         IN  new_lines(es[k].replacement) \o Simultaneous(ls, es, es[k].end + 1)
    ELSE <<ls[i]>> \o Simultaneous(ls, es, i + 1)

\* The batches that list the instructions of es in another order
Reorderings(es) ==
    {[i \in 1..Len(es) |-> es[p[i]]] :
        p \in {q \in [1..Len(es) -> 1..Len(es)] : \A i, j \in 1..Len(es) : q[i] = q[j] => i = j}}

\* C7: for a batch of pairwise non-overlapping instructions in bounds of the
\* original line count, apply_edits yields the original lines with every range
\* replaced at once, and every reordering of the batch yields the same lines.
C7_SimultaneousReplacement ==
    Patched /\ Disjoint(edits, Len(OrigLines)) =>
        /\ applied[1].lines = Simultaneous(OrigLines, edits, 1)
        /\ file = Rejoin(orig, Simultaneous(OrigLines, edits, 1))
        /\ \A es \in Reorderings(edits) : apply_edits(orig, es).lines = applied[1].lines

\* C7 witness: two disjoint instructions listed lowest first, the lower one
\* changing the number of lines
C7_Witness ==
    /\ Patched
    /\ Len(edits) = 2
    /\ Disjoint(edits, Len(OrigLines))
    /\ edits[1].start < edits[2].start
    /\ Len(new_lines(edits[1].replacement)) # edits[1].end - edits[1].start + 1
    /\ Len(new_lines(edits[2].replacement)) # edits[2].end - edits[2].start + 1

\* The entries of the loop's log
Log == applied[1].log

\* C8 as claimed: the instructions applied are exactly those with
\* 1 <= start <= end <= lineCount, lineCount being the line count of the
\* document before any instruction of the batch is applied.
C8_ValidAgainstOriginal ==
    Patched =>
        \A k \in 1..Len(Log) : Log[k].applied <=> InBounds(Log[k].op, Len(OrigLines))

\* Number of lines an applied instruction adds (negative: removes)
Growth(op) == Len(new_lines(op.replacement)) - (op.end - op.start + 1)

RECURSIVE CountBefore(_, _, _)
\* The line count the k-th instruction of ops meets, from n lines: each earlier
\* instruction in bounds of the count it met has changed the count
CountBefore(n, ops, k) ==
    IF k = 1 THEN n
    ELSE LET m == CountBefore(n, ops, k - 1)
         IN  IF InBounds(ops[k - 1], m) THEN m + Growth(ops[k - 1]) ELSE m

\* The well-typed instructions in the order the loop reaches them
Reached == sort_by(filter_map(edits))

\* C8 amended: the instructions applied are exactly those with
\* 1 <= start <= end <= lineCount, lineCount being the line count when the
\* instruction is reached, after the instructions with a higher start (and
\* those with the same start listed before it) were applied or dropped; an
\* instruction with start = 0, end = 0 or end < start is never applied, and
\* a dropped instruction does not keep the others from being applied.
C8_ValidAgainstCurrent ==
    Patched =>
        /\ Len(Log) = Len(Reached)
        /\ \A k \in 1..Len(Log) :
               /\ Log[k].op = Reached[k]
               /\ Log[k].len = CountBefore(Len(OrigLines), Reached, k)
               /\ Log[k].applied <=> InBounds(Log[k].op, CountBefore(Len(OrigLines), Reached, k))
        /\ Len(applied[1].lines) = CountBefore(Len(OrigLines), Reached, Len(Reached) + 1)

\* C8 witness: of two instructions in bounds of the original, the one reached
\* first is applied and shrinks the document, so the other is dropped
C8_Witness ==
    /\ Patched
    /\ Len(Log) = 2
    /\ Log[1].applied /\ ~Log[2].applied
    /\ InBounds(Log[2].op, Len(OrigLines))

\* C9: the persisted content ends with a line-feed if and only if the
\* original text did, whatever the replacements contain.
C9_TrailingNewlinePreserved ==
    Patched => (ends_with(file, LF) <=> ends_with(orig, LF))

\* C10: after an empty batch the lines of the persisted content are the lines
\* of the original, blank lines at the end included.
C10_EmptyBatchKeepsLines ==
    Patched /\ edits = <<>> => lines(file) = OrigLines

----------------------------------------------------------------------------
(* Failures: document I/O, upstream error records, broken byte stream *)

\* A terminal Error event that reports a failed apply_edits
ReadFailed == \E i \in 1..Len(events) : events[i] = Error(IoMessage("read_err"))
WriteFailed == \E i \in 1..Len(events) : events[i] = Error(IoMessage("write_err"))

Terminals == SelectSeq(events, IsTerminal)
LastEvent == events[Len(events)]

\* The content apply_edits makes of the original for the payload's batch
FullyPatched == apply_edits(orig, PayloadEdits).result

\* C11: when the read or the write of apply_edits fails the request ends with
\* a single Error event and no Done event, nothing is written after a failed
\* read, and after a request the document is either the original content or
\* the fully patched content.
C11_FailedApplyLeavesDocumentWhole ==
    /\ Returned /\ (ReadFailed \/ WriteFailed) =>
           Len(Terminals) = 1 /\ LastEvent.type = "Error"
    /\ ReadFailed => writes = 0 /\ file = orig
    /\ Returned => file = orig \/ file = FullyPatched

\* A step in which process_line was handed an error record
ErrorProcessed ==
    /\ Len(processed') = Len(processed) + 1
    /\ processed'[Len(processed')].kind = "error"

\* C12: the step that processes an error record sends one Error event with
\* the upstream message and returns, leaving the document as it is (no
\* resolution, no Done), and a request that has returned takes no further step.
C12_ErrorRecordFinalizes ==
    [][/\ ErrorProcessed =>
              /\ events' = Append(events, Error(processed'[Len(processed')].text))
              /\ Returned'
              /\ file' = file /\ writes' = writes /\ applied' = applied
       /\ ~Returned]_vars

\* C12 witness: an error record arrived after a complete edit payload for an
\* open document; the request returned on the Error and the document is intact
C12_Witness ==
    /\ Returned
    /\ processed # <<>> /\ processed[Len(processed)].kind = "error"
    /\ WholeIsPayload(accumulated_text)
    /\ active_file # None
    /\ LastEvent = Error(UpstreamMessage)
    /\ ~DocTouched

\* C13: the step in which a chunk read fails sends one Error event and
\* returns: the buffered line is not processed, the accumulated text is not
\* resolved, the document is not touched, and no step (no retry, no event)
\* follows.
C13_ReadFailureAborts ==
    [][/\ pc' = "ret_err" =>
              /\ events' = Append(events, Error(<<"Stream error">>))
              /\ processed' = processed /\ buffer' = buffer
              /\ accumulated_text' = accumulated_text /\ done_sent' = done_sent
              /\ file' = file /\ writes' = writes /\ applied' = applied
       /\ pc # "ret_err"]_vars

\* C13 witness: the read failed with a message_stop line waiting in the
\* buffer behind a complete edit payload for an open document
C13_Witness ==
    /\ pc = "ret_err"
    /\ buffer # None /\ buffer[1].kind = "stop"
    /\ WholeIsPayload(accumulated_text)
    /\ active_file # None
    /\ events = <<Error(<<"Stream error">>)>>
    /\ ~DocTouched

----------------------------------------------------------------------------
(* Closing the connection against an explicit message_stop *)

StopLine == Line("stop", <<>>)

\* Neither a message_stop nor an error record among the lines received
NoStopOrError ==
    /\ \A i \in 1..Len(processed) : processed[i].kind \notin {"stop", "error"}
    /\ buffer # None => buffer[1].kind \notin {"stop", "error"}

\* The request state once the byte stream ends after the loop answered x
EndAfter(x, af, io) == IF x.pc = "ret_break" THEN x.st ELSE AfterLoop(x.st, None, af, io)

\* The buffered line completed by its line-feed (it is no stop: no document I/O)
Completed(st, buf, af) == IF buf = None THEN st ELSE LoopLine(st, buf[1], af, "ok").st

\* The same lines followed by a message_stop line and the end of the stream
StopThenEnd(st, af, io) == EndAfter(LoopLine(st, StopLine, af, io), af, io)

\* The byte stream ends here
Closed(io) == AfterLoop(ReqState, buffer, active_file, io)

\* The terminal event a request ended with and its effect on the document
Outcome(a) ==
    [last |-> a.events[Len(a.events)], file |-> a.file, writes |-> a.writes]

\* The outcomes with a message_stop line after the lines received: the line
\* ended by a line-feed, or left in the buffer when the stream ends
StopOutcomes(st, af, io) ==
    {Outcome(StopThenEnd(st, af, io)), Outcome(AfterLoop(st, Some(StopLine), af, io))}

\* The request state at the start of the chunk loop
Fresh ==
    [accumulated_text |-> <<>>, done_sent |-> FALSE, suppress_text |-> FALSE,
     events |-> <<>>, file |-> orig, writes |-> 0, processed |-> <<>>, applied |-> None]

RECURSIVE Replay(_, _, _)
\* The request state after the lines ls, none of them a stop or an error
Replay(ls, st, af) ==
    IF ls = <<>> THEN st ELSE Replay(Tail(ls), process_line(st, Head(ls), af, "ok").st, af)

\* C14: with no message_stop and no error record among the lines received,
\* the end of the byte stream gives, for each outcome of the document I/O,
\* the terminal event and the document that the same lines followed by a
\* message_stop line give; a request whose stream has ended that way holds
\* the outcome of its lines followed by a message_stop line.
C14_ClosureIsImplicitStop ==
    /\ pc = "stream" /\ NoStopOrError =>
           \A io \in IoOutcomes :
               /\ IsTerminal(Outcome(Closed(io)).last)
               /\ StopOutcomes(Completed(ReqState, buffer, active_file), active_file, io)
                      = {Outcome(Closed(io))}
    /\ pc = "ret_eof" /\ NoStopOrError =>
           Outcome(ReqState) \in
               {Outcome(StopThenEnd(Replay(processed, Fresh, active_file), active_file, io)) :
                    io \in IoOutcomes}

\* C14 witness: the stream ended with no message_stop received, the last
\* text delta still in the buffer, and the final check patched the document
C14_Witness ==
    /\ pc = "ret_eof"
    /\ \A i \in 1..Len(processed) : processed[i].kind \notin {"stop", "error"}
    /\ buffer # None /\ buffer[1].kind = "text" /\ buffer[1].text # <<>>
    /\ writes = 1 /\ file # orig
    /\ LastEvent.type = "Done"

----------------------------------------------------------------------------
(* What the user is shown of a response that is no edit batch *)

\* C18: a request that ended in Done, holds a non-empty accumulated text and
\* left the document alone has delivered that text, as the contents of its
\* Text events or as the explanation of the Done.
C18_MalformedResponseDelivered ==
    Returned /\ LastEvent.type = "Done" /\ accumulated_text # <<>> /\ applied = None
        /\ ~WholeIsPayload(accumulated_text) /\ ~PartIsPayload(accumulated_text) =>
            \/ Concat(TextContents) = accumulated_text
            \/ LastEvent.explanation # None

----------------------------------------------------------------------------
(* Termination of the streaming command *)

\* C17: every request over a finite byte stream comes to return with a
\* terminal event (Done or Error) among the events it sent.
C17_EventuallyTerminal == <>(Returned /\ Terminals # <<>>)

\* C17 witness: a request that used up its lines without a message_stop or an
\* error record and got its terminal event from the final check
C17_Witness ==
    /\ pc = "ret_eof"
    /\ nrec = MaxRecords
    /\ \A i \in 1..Len(processed) : processed[i].kind \notin {"stop", "error"}
    /\ Len(Terminals) = 1

----------------------------------------------------------------------------
(* The document from the adapter to the patch engine: the request loads the *)
(* active document for the numbered rendering, and the response comes back   *)
(* as an edit batch written against that rendering.                          *)

RECURSIVE Utf16Le(_)
\* A text of one-byte characters saved as UTF-16LE, without the mark
Utf16Le(cs) == IF cs = <<>> THEN <<>> ELSE <<Head(cs), NUL>> \o Utf16Le(Tail(cs))

\* Documents whose lines end in a carriage return and a line-feed
CrLfImages == {<<"a", CR, LF>>, <<"a", CR, LF, "a", CR, LF>>, <<"a", CR, LF, "a">>}

\* Files the adapter loads: UTF-8 (some with carriage returns), UTF-16LE
\* behind the byte order mark (one with a stray last byte), and files with a
\* byte that is no UTF-8
DiskImages ==
    Contents
        \cup CrLfImages
        \cup {<<"a", LF, LEAD, CONT>>}
        \cup {<<BOM1, BOM2>> \o Utf16Le(c) : c \in Contents}
        \cup {<<BOM1, BOM2>> \o Utf16Le(<<"a", LF>>) \o <<"a">>}
        \cup {<<CONT>> \o c : c \in Contents}

\* The batches that are valid for a rendering of n lines: not empty, every
\* instruction in bounds, no two overlapping
ValidBatches(n) == {es \in Batches : es # <<>> /\ Disjoint(es, n)}

\* The parsed payload that carries the batch es
PayloadOf(es) == [edits |-> Some(es), explanation |-> None, changes |-> None]

AdapterInit ==
    /\ pc = "load"
    /\ file \in DiskImages
    /\ orig = file
    /\ active_file = Some("f")
    /\ buffer = None
    /\ accumulated_text = <<>>
    /\ done_sent = FALSE
    /\ suppress_text = FALSE
    /\ events = <<>>
    /\ writes = 0
    /\ processed = <<>>
    /\ nrec = 0
    /\ edits = <<>>
    /\ applied = None
    /\ Idle

\* The request reads the active document and renders it with line numbers
AdapterLoad ==
    /\ pc = "load"
    /\ numbered' = Numbered(read_asc_file_content(file))
    /\ pc' = "loaded"
    /\ UNCHANGED <<inbound, pos, midchar, rq, wlog, app>>
    /\ UNCHANGED <<buffer, accumulated_text, done_sent, suppress_text, events, active_file,
                   file, orig, writes, processed, nrec, edits, applied>>

\* The response is a payload whose batch is valid for the rendering; the
\* resolution hands it to handle_edit_response (the document I/O has no
\* failure of its own here)
AdapterApply ==
    /\ pc = "loaded"
    /\ \E es \in ValidBatches(Len(numbered)) :
           /\ edits' = es
           /\ SetReqState(handle_edit_response(ReqState, PayloadOf(es), active_file, "ok").st)
    /\ pc' = "ret_break"
    /\ UNCHANGED others
    /\ UNCHANGED <<buffer, active_file, orig, nrec>>

AdapterNext == AdapterLoad \/ AdapterApply

AdapterSpec == AdapterInit /\ [][AdapterNext]_vars

----------------------------------------------------------------------------
(* The chunk loop on bytes: the response body is a sequence of bytes that   *)
(* arrives cut into chunks.  A byte is a line-feed, a blank, one of the two *)
(* bytes of a two-byte character, or a run of one-byte characters that      *)
(* stays in one chunk (the prefix "data: ", a JSON fragment, a unit of the  *)
(* generated text).  In this specification the buffer is the decoded text   *)
(* not yet split off as a line.  A failed read is part of Spec.             *)

PFX == "data: "
SENTINEL == "[DONE]"
STOP == "{\"type\":\"message_stop\"}"
ERR == "{\"type\":\"error\",\"error\":{\"message\":\"p\"}}"
THK == "{\"type\":\"content_block_delta\",\"delta\":{\"type\":\"thinking_delta\",\"thinking\":\"p\"}}"
TXO == "{\"type\":\"content_block_delta\",\"delta\":{\"type\":\"text_delta\",\"text\":\""
TXC == "\"}}"
PING == "{\"type\":\"ping\"}"

\* Characters of a text delta between TXO and TXC
TextChars == Tok \cup {EACUTE, REPL}

RECURSIVE trim_end(_)
trim_end(cs) ==
    IF cs # <<>> /\ cs[Len(cs)] = WS THEN trim_end(SubSeq(cs, 1, Len(cs) - 1)) ELSE cs

trim(cs) == trim_start(trim_end(cs))

\* The JSON value of a payload, blanks around it skipped, as the line
\* process_line acts on
ParseData(d) ==
    IF d = <<STOP>> THEN Line("stop", <<>>)
    ELSE IF d = <<ERR>> THEN Line("error", UpstreamMessage)
    ELSE IF d = <<THK>> THEN Line("thinking", <<P>>)
    ELSE IF /\ Len(d) >= 2 /\ d[1] = TXO /\ d[Len(d)] = TXC
            /\ \A i \in 2..(Len(d) - 1) : d[i] \in TextChars
    THEN Line("text", SubSeq(d, 2, Len(d) - 1))
    ELSE IF d = <<PING>> THEN Line("other", <<>>)
    ELSE Line("badjson", <<>>)

\* ParseLine taking a line without the prefix for its payload
ParseLineAnyPrefix(l) ==
    IF l = <<>> THEN Line("comment", <<>>)
    ELSE IF Head(l) # PFX THEN ParseData(trim(l))
    ELSE IF Tail(l) = <<SENTINEL>> THEN Line("sentinel", <<>>)
    ELSE ParseData(trim(Tail(l)))

\* A trimmed line as process_line reads it: strip_prefix("data: "), the
\* [DONE] test, the JSON parse
ParseLine(l) ==
    IF l = <<>> \/ Head(l) # PFX THEN Line("comment", <<>>)
    ELSE IF Tail(l) = <<SENTINEL>> THEN Line("sentinel", <<>>)
    ELSE ParseData(trim(Tail(l)))

\* buffer.push_str(&String::from_utf8_lossy(&chunk)) dropping what was carried over
PushChunkReplacing(buf, chunk) == from_utf8_lossy(chunk)

\* buffer.push_str(&String::from_utf8_lossy(&chunk))
PushChunk(buf, chunk) == buf \o from_utf8_lossy(chunk)

RECURSIVE DrainLines(_, _, _, _)
\* The loop after process_line answered r with rest left in the buffer
DrainStep(r, rest, af, io) ==
    IF r.ret THEN [pc |-> "ret_break", st |-> r.st, buf |-> rest]
    ELSE DrainLines(r.st, rest, af, io)

\* The line up to the line-feed at nl is cut off, trimmed at its end and processed
DrainAt(st, buf, nl, af, io) ==
    DrainStep(process_line(st, ParseLine(trim_end(SubSeq(buf, 1, nl - 1))), af, io),
              SubSeq(buf, nl + 1, Len(buf)), af, io)

\* while let Some(pos) = buffer.find('\n')
DrainLines(st, buf, af, io) ==
    IF Find(buf, LF, 1) = 0 THEN [pc |-> "stream", st |-> st, buf |-> buf]
    ELSE DrainAt(st, buf, Find(buf, LF, 1), af, io)

\* The buffer after the loop as the flush sees it: nothing when blank, else
\* its one line trimmed at both ends
LeftOver(buf) == IF trim(buf) = <<>> THEN None ELSE Some(ParseLine(trim(buf)))

\* The code after the loop on the decoded buffer
AfterLoopBytes(st, buf, af, io) == AfterLoop(st, LeftOver(buf), af, io)

\* The request once the loop is left on a break
AfterDrain(d, af, io) ==
    IF d.pc = "ret_break"
    THEN [pc |-> d.pc, st |-> AfterLoopBytes(d.st, d.buf, af, io), buf |-> d.buf]
    ELSE d

\* Lines of the response body
ByteLines ==
    {<<PFX, TXO, P, TXC>>, <<PFX, TXO, LEAD, CONT, TXC>>, <<PFX, TXO, OE, ARR, RB, TXC>>,
     <<PFX, STOP>>, <<WS, PFX, STOP, WS>>, <<PFX, ERR>>, <<PFX, THK>>, <<>>}

RECURSIVE JoinLines(_)
\* The lines one after the other, a line-feed between two of them
JoinLines(ls) ==
    IF ls = <<>> THEN <<>>
    ELSE IF Len(ls) = 1 THEN ls[1]
    ELSE ls[1] \o <<LF>> \o JoinLines(Tail(ls))

\* Response bodies: up to MaxStreamLines lines, the last one with or without
\* its line-feed
InboundStreams ==
    {JoinLines(ls) : ls \in TextsUpTo(ByteLines, MaxStreamLines)}
        \cup {JoinLines(ls) \o <<LF>> : ls \in TextsUpTo(ByteLines, MaxStreamLines)}

ChunkInit ==
    /\ pc = "stream"
    /\ inbound \in InboundStreams
    /\ pos = 0
    /\ midchar = FALSE
    /\ buffer = <<>>
    /\ accumulated_text = <<>>
    /\ done_sent = FALSE
    /\ suppress_text = FALSE
    /\ events = <<>>
    /\ active_file = Some("f")
    /\ file = <<"a", LF>>
    /\ orig = file
    /\ writes = 0
    /\ processed = <<>>
    /\ nrec = 0
    /\ edits = <<>>
    /\ applied = None
    /\ numbered = <<>>
    /\ rq = <<>>
    /\ wlog = <<>>
    /\ AppIdle

SetDrained(d) == SetReqState(d.st) /\ pc' = d.pc /\ buffer' = d.buf

\* The cut after the first n bytes falls between the two bytes of a character
SplitsChar(bs, n) == n >= 1 /\ n < Len(bs) /\ bs[n] = LEAD /\ bs[n + 1] = CONT

\* stream.next() brings the next k bytes
RecvChunk ==
    /\ pc = "stream" /\ pos < Len(inbound)
    /\ \E k \in 1..(Len(inbound) - pos), io \in IoOutcomes :
           /\ SetDrained(AfterDrain(DrainLines(ReqState,
                                               PushChunk(buffer, SubSeq(inbound, pos + 1, pos + k)),
                                               active_file, io),
                                    active_file, io))
           /\ pos' = pos + k
           /\ midchar' = (midchar \/ SplitsChar(inbound, pos + k))
    /\ nrec' = nrec + 1
    /\ UNCHANGED <<inbound, numbered, rq, wlog, app>>
    /\ UNCHANGED <<active_file, orig, edits>>

\* stream.next() answers None: all bytes were brought
ChunkStreamEnd ==
    /\ pc = "stream" /\ pos = Len(inbound)
    /\ \E io \in IoOutcomes : SetReqState(AfterLoopBytes(ReqState, buffer, active_file, io))
    /\ pc' = "ret_eof"
    /\ UNCHANGED others
    /\ UNCHANGED <<buffer, active_file, orig, nrec, edits>>

ChunkNext == RecvChunk \/ ChunkStreamEnd

ChunkSpec == ChunkInit /\ [][ChunkNext]_vars

\* The request state after the whole body arrived in one chunk and the stream
\* ended, under the I/O outcome io
EndOfBody(d, af, io) ==
    IF d.pc = "ret_break" THEN d.st ELSE AfterLoopBytes(d.st, d.buf, af, io)

OneChunk(io) ==
    EndOfBody(AfterDrain(DrainLines(Fresh, PushChunk(<<>>, inbound), active_file, io),
                         active_file, io),
              active_file, io)

----------------------------------------------------------------------------
(* Two requests on one document.  Each invocation of the command has its   *)
(* own locals; the document is shared and apply_edits takes no lock: its    *)
(* read and its write are two steps, and the other request may run between  *)
(* them.  The document I/O has no failure here.                             *)

Requests == {1, 2}

\* The document of the race: two lines
RaceDoc == <<"a", LF, "b", LF>>

\* The response of request i edits line i
RacePayload(i) == IF i = 1 THEN <<OE, ARR, RB>> ELSE <<OE, ARR2, RB>>
RaceBatch(i) == IF i = 1 THEN PayloadEdits ELSE PayloadEdits2

\* Lines request i may receive before it finalizes
RaceLines(i) == {Line("text", RacePayload(i)), Line("text", <<P>>), Line("thinking", <<P>>)}

\* Finalizing by a message_stop line or by the end of the stream
Triggers == {"stop", "eof"}

\* The resolution of the trigger reaches apply_edits
ReachesApply(st, trigger) ==
    /\ WholeIsPayload(st.accumulated_text) \/ PartIsPayload(st.accumulated_text)
    /\ trigger = "stop" \/ ~st.done_sent

\* The request after the trigger
Finalized(st, trigger, af) ==
    IF trigger = "stop" THEN LoopLine(st, StopLine, af, "ok")
    ELSE [pc |-> "ret_eof", st |-> AfterLoop(st, None, af, "ok")]

\* apply_edits working on the content on disk at the time of its write
WithReadLate(st, snap, disk) == [st EXCEPT !.file = disk]

\* apply_edits working on the content it read
WithRead(st, snap, disk) == [st EXCEPT !.file = snap]

RaceInit ==
    /\ pc = "race"
    /\ file = RaceDoc
    /\ orig = file
    /\ active_file = Some("f")
    /\ rq = [i \in Requests |->
                 [pc |-> "stream", snap |-> None, trigger |-> "none",
                  st |-> [accumulated_text |-> <<>>, done_sent |-> FALSE,
                          suppress_text |-> FALSE, events |-> <<>>, file |-> RaceDoc,
                          writes |-> 0, processed |-> <<>>, applied |-> None]]]
    /\ wlog = <<>>
    /\ buffer = None
    /\ accumulated_text = <<>>
    /\ done_sent = FALSE
    /\ suppress_text = FALSE
    /\ events = <<>>
    /\ writes = 0
    /\ processed = <<>>
    /\ nrec = 0
    /\ edits = <<>>
    /\ applied = None
    /\ numbered = <<>>
    /\ inbound = <<>>
    /\ pos = 0
    /\ midchar = FALSE
    /\ AppIdle

RaceFrame ==
    UNCHANGED <<pc, buffer, accumulated_text, done_sent, suppress_text, events, active_file,
                orig, writes, processed, nrec, edits, applied, numbered, inbound, pos, midchar,
                app>>

\* Request i after x: its position and its locals
Moved(r, x) == [r EXCEPT !.pc = x.pc, !.st = x.st]

\* Request i processes a delta line
RaceStep(i) ==
    /\ rq[i].pc = "stream" /\ Len(rq[i].st.processed) < MaxRaceLines
    /\ \E line \in RaceLines(i) :
           rq' = [rq EXCEPT ![i] = Moved(@, LoopLine(rq[i].st, line, active_file, "ok"))]
    /\ UNCHANGED <<file, wlog>>
    /\ RaceFrame

\* Request i finalizes on a text that is no payload: apply_edits is not called
RaceFinish(i) ==
    /\ rq[i].pc = "stream"
    /\ \E trigger \in Triggers :
           /\ ~ReachesApply(rq[i].st, trigger)
           /\ trigger = "stop" => Len(rq[i].st.processed) < MaxRaceLines + 1
           /\ rq' = [rq EXCEPT ![i] = Moved(@, Finalized(rq[i].st, trigger, active_file))]
    /\ UNCHANGED <<file, wlog>>
    /\ RaceFrame

\* Request i finalizes on a payload: apply_edits reads the document
RaceRead(i) ==
    /\ rq[i].pc = "stream"
    /\ \E trigger \in Triggers :
           /\ ReachesApply(rq[i].st, trigger)
           /\ rq' = [rq EXCEPT ![i] = [@ EXCEPT !.pc = "read", !.snap = read_to_string(file),
                                                 !.st.file = read_to_string(file)[1],
                                                 !.trigger = trigger]]
    /\ UNCHANGED <<file, wlog>>
    /\ RaceFrame

\* What request r has made of its read when it comes to write
Written(r, af, disk) == Finalized(WithRead(r.st, r.snap[1], disk), r.trigger, af)

\* Request i: apply_edits writes what it made of the content it read, and the
\* request sends its Done
RaceWrite(i) ==
    /\ rq[i].pc = "read"
    /\ rq' = [rq EXCEPT ![i] = Moved(@, Written(rq[i], active_file, file))]
    /\ file' = Written(rq[i], active_file, file).st.file
    /\ wlog' = Append(wlog, [req |-> i, read |-> rq[i].snap[1],
                             content |-> Written(rq[i], active_file, file).st.file])
    /\ RaceFrame

RaceNext == \E i \in Requests : RaceStep(i) \/ RaceFinish(i) \/ RaceRead(i) \/ RaceWrite(i)

RaceSpec == RaceInit /\ [][RaceNext]_vars

----------------------------------------------------------------------------
(* The coordinate space of the patch engine *)

\* C20: for every document the adapter loads, the lines the patch engine
\* reads are the lines of the numbered rendering, line by line, and a batch
\* that is valid for the rendering is applied: the request ends in Done with
\* every instruction of the batch applied.
C20_EngineEditsRenderedLines ==
    pc = "ret_break" /\ numbered # <<>> =>
        /\ read_to_string(orig) # None
        /\ Numbered(read_to_string(orig)[1]) = numbered
        /\ LastEvent.type = "Done"
        /\ applied # None
        /\ \A k \in 1..Len(applied[1].log) : applied[1].log[k].applied

----------------------------------------------------------------------------
(* Reassembly of the lines from the chunks *)

TextsOf(es) == [i \in 1..Len(SelectSeq(es, IsTextEvent)) |->
                   SelectSeq(es, IsTextEvent)[i].content]

\* C15: a request whose chunks were all cut between characters has, once it
\* returned, sent the events and left the document that the same response
\* body gives when it arrives in one chunk (for some outcome of the document
\* I/O, the same on both sides).
C15_ChunkingIndependent ==
    pc \in {"ret_eof", "ret_break"} /\ ~midchar =>
        \E io \in IoOutcomes :
            /\ events = OneChunk(io).events
            /\ file = OneChunk(io).file

\* C15 witness: a body of two lines, the last without its line-feed, arrived
\* in four chunks or more, so that one of them ended inside a line; the
\* document was patched
C15_Witness ==
    /\ pc = "ret_eof"
    /\ ~midchar
    /\ nrec >= 4
    /\ Len(processed) = 2
    /\ inbound[Len(inbound)] # LF
    /\ writes = 1
    /\ LastEvent.type = "Done"

\* C16: whatever the cuts, also one between the two bytes of a character, the
\* text deltas delivered and accumulated are those of the same response body
\* arriving in one chunk.
C16_SplitCharacterDecoded ==
    pc \in {"ret_eof", "ret_break"} /\ midchar =>
        /\ TextContents = TextsOf(OneChunk("ok").events)
        /\ accumulated_text = OneChunk("ok").accumulated_text

----------------------------------------------------------------------------
(* Two requests racing on the document *)

RaceOver == \A i \in Requests : rq[i].pc \in {"ret_break", "ret_eof"}

\* The content request r worked on: what it read, the original before that
SeenBy(r) == IF r.snap # None THEN r.snap[1] ELSE orig

\* The locals of a request that met the lines of r alone on the document,
\* reading the content r read
Alone(r, base, af) ==
    IF r.pc = "ret_eof" THEN AfterLoop(base, None, af, "ok") ELSE base

\* The locals of each request are what its own lines make of them, whatever
\* the other request has done in between
OwnLinesOnly ==
    \A i \in Requests :
        rq[i].st = Alone(rq[i],
                         Replay(rq[i].st.processed, [Fresh EXCEPT !.file = SeenBy(rq[i])],
                                active_file),
                         active_file)

\* Every write put the whole content that its request made of its own read
WholeWrites ==
    \A k \in 1..Len(wlog) :
        wlog[k].content = as_bytes(apply_edits(wlog[k].read, RaceBatch(wlog[k].req)).result)

\* The document is what the last write put
LastWriteWins == wlog # <<>> => file = wlog[Len(wlog)].content

\* No request was held up or told of the other: none has sent an Error, and
\* the one that wrote ended in its Done
NoConflictReported ==
    /\ \A i \in Requests : \A k \in 1..Len(rq[i].st.events) :
           rq[i].st.events[k].type # "Error"
    /\ \A k \in 1..Len(wlog) :
           rq[wlog[k].req].st.events[Len(rq[wlog[k].req].st.events)].type = "Done"

\* C19: two requests on one document are not kept apart: the locals of each
\* are what its own lines make of them, each write is the whole content its
\* request made of what it read at its own finalize, the document is what the
\* last write put, and no request reports a conflict.
C19_LastWriteWins ==
    pc = "race" =>
        OwnLinesOnly /\ WholeWrites /\ LastWriteWins /\ NoConflictReported

\* C19 witness: both requests read the original, request 1 wrote first and
\* request 2 last; both ended in Done and the edit of request 1 is lost
C19_Witness ==
    /\ pc = "race"
    /\ RaceOver
    /\ Len(wlog) = 2
    /\ wlog[1].req = 1 /\ wlog[2].req = 2
    /\ wlog[1].read = RaceDoc /\ wlog[2].read = RaceDoc
    /\ file = <<"a", LF, "y", LF>>
    /\ \A i \in Requests : rq[i].st.events[Len(rq[i].st.events)].type = "Done"

----------------------------------------------------------------------------
(* One instruction on its own *)

\* The batch is one instruction with 1 <= start <= end <= n, n the line count
\* of the original
OneValid == Len(edits) = 1 /\ InBounds(edits[1], Len(OrigLines))

\* ls is before with the range of op given way to the lines repl: the lines
\* before the range and after it are those of before, in their order, and
\* the lines of repl stand from start on
Spliced(ls, before, op, repl) ==
    /\ Len(ls) = Len(before) - (op.end - op.start + 1) + Len(repl)
    /\ \A i \in 1..(op.start - 1) : ls[i] = before[i]
    /\ \A j \in 1..Len(repl) : ls[op.start - 1 + j] = repl[j]
    /\ \A i \in (op.end + 1)..Len(before) :
           ls[i - (op.end - op.start + 1) + Len(repl)] = before[i]

----------------------------------------------------------------------------
(* Carriage returns *)

RECURSIVE RawLines(_)
\* A text split solely on line-feed: a carriage return stays in its line
RawLines(s) ==
    IF s = <<>> THEN <<>>
    ELSE LET p == Find(s, LF, 1)
         IN  IF p = 0 THEN <<s>>
             ELSE <<SubSeq(s, 1, p - 1)>> \o RawLines(SubSeq(s, p + 1, Len(s)))

\* Line i is in the range of an instruction of es
Covered(i, es) == \E k \in 1..Len(es) : es[k].start <= i /\ i <= es[k].end

RECURSIVE Shift(_, _, _)
\* By how many places the instructions es[k..] whose range ends before line i
\* move that line
Shift(i, es, k) ==
    IF k > Len(es) THEN 0
    ELSE (IF es[k].end < i THEN Growth(es[k]) ELSE 0) + Shift(i, es, k + 1)

\* C22: lines are delimited solely by line-feed: a carriage return before a
\* line-feed is part of the line in the numbered rendering, and after an
\* apply every line that no applied instruction covers keeps its carriage
\* return in the persisted document.
C22_CarriageReturnKept ==
    pc = "ret_break" /\ read_to_string(orig) # None /\ writes = 1 =>
        \A i \in 1..Len(RawLines(orig)) :
            ends_with(RawLines(orig)[i], CR) =>
                /\ i <= Len(numbered)
                /\ numbered[i].line = RawLines(orig)[i]
                /\ ~Covered(i, edits) =>
                       /\ i + Shift(i, edits, 1) \in 1..Len(RawLines(file))
                       /\ RawLines(file)[i + Shift(i, edits, 1)] = RawLines(orig)[i]

----------------------------------------------------------------------------
(* Ignorable records: response bodies in which lines that process_line is  *)
(* to pass over stand between the records that count                        *)

\* Lines to pass over: a record without the "data: " prefix, the sentinel,
\* a payload that is no JSON, a JSON record of a type that is not handled
IgnorableByteLines == {<<STOP>>, <<PFX, SENTINEL>>, <<PFX, P>>, <<PFX, PING>>}

\* Lines that count: a text delta, a payload in one delta, a thinking delta,
\* a message_stop
EffectiveByteLines ==
    {<<PFX, TXO, P, TXC>>, <<PFX, TXO, OE, ARR, RB, TXC>>, <<PFX, THK>>, <<PFX, STOP>>}

IgnorableStreams ==
    LET bodies == TextsUpTo(IgnorableByteLines \cup EffectiveByteLines, MaxStreamLines)
    IN  {JoinLines(ls) : ls \in bodies} \cup {JoinLines(ls) \o <<LF>> : ls \in bodies}

IgnorableInit ==
    /\ pc = "stream"
    /\ inbound \in IgnorableStreams
    /\ pos = 0
    /\ midchar = FALSE
    /\ buffer = <<>>
    /\ accumulated_text = <<>>
    /\ done_sent = FALSE
    /\ suppress_text = FALSE
    /\ events = <<>>
    /\ active_file = Some("f")
    /\ file = <<"a", LF>>
    /\ orig = file
    /\ writes = 0
    /\ processed = <<>>
    /\ nrec = 0
    /\ edits = <<>>
    /\ applied = None
    /\ numbered = <<>>
    /\ rq = <<>>
    /\ wlog = <<>>
    /\ AppIdle

IgnorableSpec == IgnorableInit /\ [][ChunkNext]_vars

RECURSIVE Kept(_, _)
\* The body s without its ignorable lines, each taken out with its line-feed;
\* a last line without line-feed is looked at only when whole says that s is
\* the whole body
Kept(s, whole) ==
    IF s = <<>> THEN <<>>
    ELSE LET p == Find(s, LF, 1)
         IN  IF p = 0 THEN (IF whole /\ s \in IgnorableByteLines THEN <<>> ELSE s)
             ELSE (IF SubSeq(s, 1, p - 1) \in IgnorableByteLines THEN <<>> ELSE SubSeq(s, 1, p))
                      \o Kept(SubSeq(s, p + 1, Len(s)), whole)

\* The number of ignorable lines of the body s
RECURSIVE Ignored(_)
Ignored(s) ==
    IF s = <<>> THEN 0
    ELSE LET p == Find(s, LF, 1)
         IN  IF p = 0 THEN (IF s \in IgnorableByteLines THEN 1 ELSE 0)
             ELSE (IF SubSeq(s, 1, p - 1) \in IgnorableByteLines THEN 1 ELSE 0)
                      + Ignored(SubSeq(s, p + 1, Len(s)))

\* The request after the bytes bs arrived in one chunk, the stream still open
Received(bs, af) == AfterDrain(DrainLines(Fresh, PushChunk(<<>>, bs), af, "ok"), af, "ok")

\* The request after the body bs arrived in one chunk and the stream ended
WholeBody(bs, af, io) ==
    EndOfBody(AfterDrain(DrainLines(Fresh, PushChunk(<<>>, bs), af, io), af, io), af, io)

\* What a request shows: the events sent, the accumulated text, the two flags
\* and the document
Shown(st) == <<st.events, st.accumulated_text, st.suppress_text, st.done_sent, st.file>>

\* C23: a line without the "data: " prefix, the sentinel line, a data line
\* whose payload is no JSON and a JSON record of an unrecognized type are
\* no-ops: at every point the events sent, the accumulated text, the mode
\* flag, the done flag and the document are those of the same response body
\* with these lines taken out, and the loop goes on after them.
C23_IgnorableLinesAreNoOps ==
    /\ pc = "stream" =>
           /\ Received(SubSeq(inbound, 1, pos), active_file).pc = "stream"
           /\ Received(Kept(SubSeq(inbound, 1, pos), FALSE), active_file).pc = "stream"
           /\ Shown(ReqState) =
                  Shown(Received(Kept(SubSeq(inbound, 1, pos), FALSE), active_file).st)
    /\ pc \in {"ret_eof", "ret_break"} =>
           \E io \in IoOutcomes :
               Shown(ReqState) = Shown(WholeBody(Kept(inbound, TRUE), active_file, io))

\* C23 witness: an ignorable line was processed, the text delta after it was
\* delivered and the stream ended in the plain Done
C23_Witness ==
    /\ pc = "ret_eof"
    /\ Len(processed) = 2
    /\ processed[1].kind \in IgnorableKinds
    /\ Ignored(inbound) = 1
    /\ events = <<Text(<<P>>), Done(<<>>, None)>>

----------------------------------------------------------------------------
(* The payload with an empty edits array: response bodies whose text deltas *)
(* bring it whole or in two parts, with or without an active document       *)

\* The text {"edits":[]}
EmptyPayload == <<OE, ARR0, RB>>

\* Lines of these bodies: an empty text delta, the payload in one delta and
\* in two, a message_stop, an error record, a thinking delta
EmptyBatchLines ==
    {<<PFX, TXO, TXC>>, <<PFX, TXO, OE, ARR0, RB, TXC>>, <<PFX, TXO, OE, TXC>>,
     <<PFX, TXO, ARR0, RB, TXC>>, <<PFX, STOP>>, <<PFX, ERR>>, <<PFX, THK>>}

EmptyBatchStreams ==
    LET bodies == TextsUpTo(EmptyBatchLines, MaxStreamLines)
    IN  {JoinLines(ls) : ls \in bodies} \cup {JoinLines(ls) \o <<LF>> : ls \in bodies}

EmptyBatchInit ==
    /\ pc = "stream"
    /\ inbound \in EmptyBatchStreams
    /\ pos = 0
    /\ midchar = FALSE
    /\ buffer = <<>>
    /\ accumulated_text = <<>>
    /\ done_sent = FALSE
    /\ suppress_text = FALSE
    /\ events = <<>>
    /\ active_file \in {None, Some("f")}
    /\ file = <<"a", LF>>
    /\ orig = file
    /\ writes = 0
    /\ processed = <<>>
    /\ nrec = 0
    /\ edits = <<>>
    /\ applied = None
    /\ numbered = <<>>
    /\ rq = <<>>
    /\ wlog = <<>>
    /\ AppIdle

EmptyBatchSpec == EmptyBatchInit /\ [][ChunkNext]_vars

\* The request returned with the empty-batch payload as its accumulated text
EndedOnEmptyPayload ==
    pc \in {"ret_eof", "ret_break"} /\ accumulated_text = EmptyPayload

ResolvedOnce ==
    \A k \in 1..Len(processed) :
        /\ processed[k].kind # "error"
        /\ processed[k].kind = "stop" => k = Len(processed)

----------------------------------------------------------------------------
(* The command before it streams: the credential, the working directory,    *)
(* the active document and the HTTP request.  pc is "start", "dir", "load", *)
(* "send", "status", then "stream"; "ret_pre" when the command returned     *)
(* Ok(()) before streaming and "ret_failed" when it returned Err with `?`.  *)
(* A poisoned mutex is left out: no code panics while it holds a lock.      *)

NoKeyMessage == <<"ANTHROPIC_API_KEY not set. Please set it as an environment variable.">>
NoDirMessage == <<"No working directory set">>
UnreadableMessage == <<"Failed to read file">>
ApiErrorMessage == <<"API error">>

PreludeInit ==
    /\ pc = "start"
    /\ api_key \in {"", "k"}
    /\ env_key \in {None, Some(""), Some("k")}
    /\ working_directory \in {None, Some("d")}
    /\ active_file \in {None, Some("f")}
    /\ file \in DiskImages
    /\ orig = file
    /\ buffer = None
    /\ accumulated_text = <<>>
    /\ done_sent = FALSE
    /\ suppress_text = FALSE
    /\ events = <<>>
    /\ writes = 0
    /\ processed = <<>>
    /\ nrec = 0
    /\ edits = <<>>
    /\ applied = None
    /\ numbered = <<>>
    /\ inbound = <<>>
    /\ pos = 0
    /\ midchar = FALSE
    /\ rq = <<>>
    /\ wlog = <<>>
    /\ lock = None
    /\ chat_dir = <<>>
    /\ calls = <<>>
    /\ served = <<>>

PreludeFrame ==
    UNCHANGED <<buffer, accumulated_text, done_sent, suppress_text, active_file, file, orig,
                writes, processed, nrec, edits, applied, inbound, pos, midchar, rq, wlog,
                env_key, working_directory, lock, chat_dir, calls, served>>

\* The key the command goes on with: the held one, or the environment's
\* when none is held
KeyInUse == IF api_key = "" /\ env_key # None THEN env_key[1] ELSE api_key

\* The credential: an empty key is filled from the environment and kept;
\* with no key the command sends Error and returns
Credential ==
    /\ pc = "start"
    /\ api_key' = KeyInUse
    /\ IF KeyInUse = ""
       THEN events' = Append(events, Error(NoKeyMessage)) /\ pc' = "ret_pre"
       ELSE events' = events /\ pc' = "dir"
    /\ UNCHANGED numbered
    /\ PreludeFrame

\* The working directory: without one the command sends Error and returns
Directory ==
    /\ pc = "dir"
    /\ IF working_directory = None
       THEN events' = Append(events, Error(NoDirMessage)) /\ pc' = "ret_pre"
       ELSE events' = events /\ pc' = "load"
    /\ UNCHANGED <<numbered, api_key>>
    /\ PreludeFrame

\* The active document, if any, is read and rendered with line numbers; a
\* file that cannot be read at all gives Error and the command returns
ReadActive ==
    /\ pc = "load"
    /\ \E readable \in BOOLEAN :
           IF active_file # None /\ ~readable
           THEN /\ events' = Append(events, Error(UnreadableMessage))
                /\ pc' = "ret_pre"
                /\ UNCHANGED numbered
           ELSE /\ numbered' = IF active_file # None THEN Numbered(read_asc_file_content(file))
                               ELSE numbered
                /\ events' = events
                /\ pc' = "send"
    /\ UNCHANGED api_key
    /\ PreludeFrame

\* client.post(..).send().await: a request that cannot be sent leaves the
\* command through `?` with Err("API request failed: ..")
SendRequest ==
    /\ pc = "send"
    /\ \E sent \in BOOLEAN : pc' = IF sent THEN "status" ELSE "ret_failed"
    /\ UNCHANGED <<events, numbered, api_key>>
    /\ PreludeFrame

\* The status of the response: on a non-success status the command sends
\* Error and returns, else it starts to read the stream
CheckStatus ==
    /\ pc = "status"
    /\ \E success \in BOOLEAN :
           IF success THEN events' = events /\ pc' = "stream"
           ELSE events' = Append(events, Error(ApiErrorMessage)) /\ pc' = "ret_pre"
    /\ UNCHANGED <<numbered, api_key>>
    /\ PreludeFrame

PreludeNext == Credential \/ Directory \/ ReadActive \/ SendRequest \/ CheckStatus

PreludeSpec == PreludeInit /\ [][PreludeNext]_vars

\* The command returned before it read the stream
FailedBeforeStreaming == pc \in {"ret_pre", "ret_failed"}

\* C25: every failure before streaming starts (no credential, no working
\* directory, active file unreadable, HTTP request not sent, non-success
\* status) ends the request with exactly one Error event and no other event,
\* and the document is not written.
C25_EarlyFailureIsOneError ==
    FailedBeforeStreaming =>
        /\ Len(events) = 1
        /\ events[1].type = "Error"
        /\ file = orig /\ writes = 0

----------------------------------------------------------------------------
(* The accumulated text *)

\* C26: at every point of a request the accumulated text is the
\* concatenation, in arrival order, of the payloads of the text deltas
\* processed so far, in both modes; thinking deltas, ignorable lines and the
\* sentinel (and message_stop and error records) add nothing to it.
C26_AccumulatedIsConcatOfDeltas ==
    accumulated_text = Concat(TextDeltas)

\* C26 witness: in suppressed mode two text deltas were processed with a
\* thinking delta between them, and the text holds both
C26_Witness ==
    /\ suppress_text
    /\ Len(processed) = 3
    /\ processed[1].kind = "text" /\ processed[2].kind = "thinking"
    /\ processed[3].kind = "text"
    /\ processed[1].text # <<>> /\ processed[3].text # <<>>
    /\ accumulated_text = processed[1].text \o processed[3].text

----------------------------------------------------------------------------
(* A payload without an active document *)

\* The payload the resolution finds in the text: the whole of it, else its
\* part from the first {"edits" on
PayloadIn(text) ==
    IF WholeIsPayload(text) THEN from_str(text)[1]
    ELSE from_str(SubSeq(text, FindEdits(text), Len(text)))[1]

\* apply_edits was not reached: nothing read, computed or written, and no
\* document-I/O error reported
NoDocumentIo ==
    file = orig /\ writes = 0 /\ applied = None /\ ~ReadFailed /\ ~WriteFailed

\* C27: in a request without an active file no document is read or written,
\* whatever the outcome the document I/O would have had, and a request that
\* is resolved on a valid edit payload (by its message_stop or by the end of
\* the stream) terminates with Done carrying the payload's change list and
\* its explanation, or the default explanation when it has none.
C27_PayloadWithoutActiveFile ==
    active_file = None =>
        /\ NoDocumentIo
        /\ /\ pc \in {"ret_eof", "ret_break"}
           /\ ResolvedOnce
           /\ WholeIsPayload(accumulated_text) \/ PartIsPayload(accumulated_text)
           => Terminals = <<Done(ChangesOf(PayloadIn(accumulated_text)),
                                 Some(ExplanationOf(PayloadIn(accumulated_text))))>>

\* C27 witness: without an active file the payload with an explanation and a
\* change was resolved by message_stop: Done carries both, the document is
\* as it was
C27_Witness ==
    /\ active_file = None
    /\ pc = "ret_break"
    /\ accumulated_text = <<OE, ARR, RBX>>
    /\ events = <<Done(PayloadChanges, Some(PayloadExplanation))>>
    /\ file = orig /\ writes = 0

----------------------------------------------------------------------------
(* The chat history of one document (commands/history.rs): the files of its *)
(* chats directory and the calls of save_chat_session and                   *)
(* delete_chat_session, which may be in progress at the same time.  A file  *)
(* is known by its stem: "<id>.json" is id, "sessions.json" is "sessions".  *)
(* Of a session the id and the number of messages are kept, of an index     *)
(* entry the id and message_count.  The file operations succeed here.       *)

IndexName == "sessions"

\* Session ids a caller may pass
SessionIds == {"s1", "s2", "sessions"}

\* Numbers of messages of a saved session
MessageCounts == {1, 2}

\* A file of the directory by what serde writes into it
Absent == [kind |-> "absent", sessions |-> <<>>, id |-> "", messages |-> 0]
IndexFile(ix) == [kind |-> "index", sessions |-> ix, id |-> "", messages |-> 0]
SessionFile(id, n) == [kind |-> "session", sessions |-> <<>>, id |-> id, messages |-> n]

ChatSessionMeta(id, n) == [id |-> id, message_count |-> n]

\* read_index: the sessions of sessions.json; no entry when the file is
\* missing or is no SessionIndex (a SessionData has no `sessions` field)
read_index(dir) == IF dir[IndexName].kind = "index" THEN dir[IndexName].sessions ELSE <<>>

\* write_index
write_index(dir, ix) == [dir EXCEPT ![IndexName] = IndexFile(ix)]

\* index.sessions.iter_mut().find(|s| s.id == id): the position of the first
\* entry with that id, 0 for None
RECURSIVE FindSession(_, _, _)
FindSession(ix, id, i) ==
    IF i > Len(ix) THEN 0 ELSE IF ix[i].id = id THEN i ELSE FindSession(ix, id, i + 1)

\* The index save_chat_session writes: the existing entry updated, or a new
\* entry put in front
Upserted(ix, id, n) ==
    IF FindSession(ix, id, 1) # 0
    THEN [ix EXCEPT ![FindSession(ix, id, 1)].message_count = n]
    ELSE <<ChatSessionMeta(id, n)>> \o ix

\* index.sessions.retain(|s| s.id != session_id)
Retained(ix, id) == SelectSeq(ix, LAMBDA e : e.id # id)

\* The index a call writes, from the one it read
NewIndex(c, ix) == IF c.op = "save" THEN Upserted(ix, c.id, c.messages) ELSE Retained(ix, c.id)

\* The session file of a call written (save) or removed if it exists (delete)
SessionFileDone(c, dir) ==
    IF c.op = "save" THEN [dir EXCEPT ![c.id] = SessionFile(c.id, c.messages)]
    ELSE [dir EXCEPT ![c.id] = Absent]

Call(op, id, n) == [op |-> op, id |-> id, messages |-> n, pc |-> "wait", index |-> <<>>]

HistoryInit ==
    /\ pc = "history"
    /\ working_directory \in {None, Some("d")}
    /\ lock = None
    /\ chat_dir = [name \in SessionIds |-> Absent]
    /\ calls = <<>>
    /\ served = <<>>
    /\ api_key = "k"
    /\ env_key = None
    /\ buffer = None
    /\ accumulated_text = <<>>
    /\ done_sent = FALSE
    /\ suppress_text = FALSE
    /\ events = <<>>
    /\ active_file = None
    /\ file = <<>>
    /\ orig = <<>>
    /\ writes = 0
    /\ processed = <<>>
    /\ nrec = 0
    /\ edits = <<>>
    /\ applied = None
    /\ numbered = <<>>
    /\ inbound = <<>>
    /\ pos = 0
    /\ midchar = FALSE
    /\ rq = <<>>
    /\ wlog = <<>>

HistoryFrame ==
    UNCHANGED <<pc, buffer, accumulated_text, done_sent, suppress_text, events, active_file,
                file, orig, writes, processed, nrec, edits, applied, numbered, inbound, pos,
                midchar, rq, wlog, api_key, env_key, working_directory>>

\* The front end invokes save_chat_session or delete_chat_session
Invoke ==
    /\ pc = "history" /\ Len(calls) < MaxCalls
    /\ \E id \in SessionIds :
           \/ \E n \in MessageCounts : calls' = Append(calls, Call("save", id, n))
           \/ calls' = Append(calls, Call("delete", id, 0))
    /\ UNCHANGED <<lock, chat_dir, served>>
    /\ HistoryFrame

\* Acquire taking the lock although another call holds it
AcquireNoWait(i) ==
    /\ calls[i].pc = "wait"
    /\ served' = Append(served, i)
    /\ IF working_directory = None
       THEN calls' = [calls EXCEPT ![i].pc = "failed"] /\ lock' = lock
       ELSE calls' = [calls EXCEPT ![i].pc = "locked"] /\ lock' = Some(i)
    /\ UNCHANGED chat_dir
    /\ HistoryFrame

\* state.working_directory.lock(): the call waits until the mutex is free;
\* without a working directory it returns Err and the guard is dropped
Acquire(i) ==
    /\ calls[i].pc = "wait"
    /\ lock = None
    /\ served' = Append(served, i)
    /\ IF working_directory = None
       THEN calls' = [calls EXCEPT ![i].pc = "failed"] /\ lock' = lock
       ELSE calls' = [calls EXCEPT ![i].pc = "locked"] /\ lock' = Some(i)
    /\ UNCHANGED chat_dir
    /\ HistoryFrame

\* The session file is written (save) or removed (delete)
TouchSessionFile(i) ==
    /\ calls[i].pc = "locked"
    /\ chat_dir' = SessionFileDone(calls[i], chat_dir)
    /\ calls' = [calls EXCEPT ![i].pc = "filed"]
    /\ UNCHANGED <<lock, served>>
    /\ HistoryFrame

\* let mut index = read_index(&chat_dir)
ReadIndex(i) ==
    /\ calls[i].pc = "filed"
    /\ calls' = [calls EXCEPT ![i].pc = "read", ![i].index = read_index(chat_dir)]
    /\ UNCHANGED <<lock, chat_dir, served>>
    /\ HistoryFrame

\* The index is updated and written; the call returns and the guard is dropped
WriteIndex(i) ==
    /\ calls[i].pc = "read"
    /\ chat_dir' = write_index(chat_dir, NewIndex(calls[i], calls[i].index))
    /\ calls' = [calls EXCEPT ![i].pc = "done"]
    /\ lock' = IF lock = Some(i) THEN None ELSE lock
    /\ UNCHANGED served
    /\ HistoryFrame

HistoryNext ==
    \/ Invoke
    \/ \E i \in 1..Len(calls) : Acquire(i)
    \/ \E i \in 1..Len(calls) : TouchSessionFile(i)
    \/ \E i \in 1..Len(calls) : ReadIndex(i)
    \/ \E i \in 1..Len(calls) : WriteIndex(i)

HistorySpec == HistoryInit /\ [][HistoryNext]_vars

----------------------------------------------------------------------------
(* The session index *)

RECURSIVE LastSaved(_, _)
\* After the calls cs in that order: for each id the number of messages of
\* its last saved version, 0 when it was never saved or was deleted afterwards
LastSaved(cs, k) ==
    IF k = 0 THEN [id \in SessionIds |-> 0]
    ELSE [LastSaved(cs, k - 1) EXCEPT ![cs[k].id] = IF cs[k].op = "save" THEN cs[k].messages
                                                     ELSE 0]

\* The calls that took the lock, in that order
Served == [k \in 1..Len(served) |-> calls[served[k]]]

\* The entries of the index on disk for the session id
EntriesOf(id) == SelectSeq(read_index(chat_dir), LAMBDA e : e.id = id)

\* C28: between calls (none of them failed), the session index holds exactly
\* one entry for each session id saved and not deleted afterwards, none for
\* the others, and the entry's message_count is the number of messages of the
\* last saved version of that session.
C28_IndexMatchesSavedSessions ==
    pc = "history" /\ lock = None /\ working_directory # None =>
        \A id \in SessionIds :
            IF LastSaved(Served, Len(Served))[id] = 0 THEN EntriesOf(id) = <<>>
            ELSE EntriesOf(id) = <<ChatSessionMeta(id, LastSaved(Served, Len(Served))[id])>>

----------------------------------------------------------------------------
(* The lock around the chat-history calls *)

\* Call i is between taking the lock and returning
InCritical(i) == calls[i].pc \in {"locked", "filed", "read"}

\* A whole call on the directory, with nothing in between
WholeCall(c, dir) ==
    write_index(SessionFileDone(c, dir), NewIndex(c, read_index(SessionFileDone(c, dir))))

RECURSIVE Serial(_, _)
\* The directory after the first k calls of cs, one after the other
Serial(cs, k) ==
    IF k = 0 THEN [name \in SessionIds |-> Absent]
    ELSE WholeCall(cs[k], Serial(cs, k - 1))

\* C29: each save_chat_session and delete_chat_session call holds the
\* working-directory lock from before it touches the directory until it
\* returns: at most one call is inside, the index a call has read is still
\* the one on disk when it writes, and whenever the lock is free the
\* directory is what the calls make of it run one after the other in the
\* order they took the lock (no update is lost).
C29_HistoryCallsSerialized ==
    pc = "history" =>
        /\ \A i, j \in 1..Len(calls) : InCritical(i) /\ InCritical(j) => i = j
        /\ \A i \in 1..Len(calls) : InCritical(i) <=> lock = Some(i)
        /\ \A i \in 1..Len(calls) :
               calls[i].pc = "read" => calls[i].index = read_index(chat_dir)
        /\ lock = None /\ working_directory # None =>
               chat_dir = Serial(Served, Len(Served))

\* C29 witness: three calls were invoked together; the third is done, the
\* second holds the lock and has read the index the third wrote, the first
\* still waits for the lock
C29_Witness ==
    /\ pc = "history"
    /\ Len(calls) = 3
    /\ calls[1].pc = "wait" /\ calls[2].pc = "read" /\ calls[3].pc = "done"
    /\ calls[3].op = "save" /\ calls[2].op = "save" /\ calls[2].id # calls[3].id
    /\ calls[2].index = <<ChatSessionMeta(calls[3].id, calls[3].messages)>>
    /\ lock = Some(2)

====
